---- MODULE Spec2Model ----
(***************************************************************************)
(* Animation playback engine of the led-matrix-painter sketch              *)
(* (src/examples/led-matrix-painter/sketch/sketch.ino, lines 15-133).      *)
(*                                                                         *)
(* The firmware has one execution context: the providers draw, load_frame, *)
(* play_animation and stop_animation and the loop()'s animation_tick run   *)
(* to completion one at a time, so each is one atomic action.  millis() is *)
(* the variable `now`, advanced by the environment action Advance.         *)
(*                                                                         *)
(* Array indices are the C indices (0-based) for animation_buf; a frame    *)
(* is the 5-tuple <<w0, w1, w2, w3, duration>>, so C word k is f[k + 1].   *)
(***************************************************************************)
EXTENDS Integers, Sequences, FiniteSets, TLC

(***************************************************************************)
(* Bounds.  MAX_FRAMES is 300 in the sketch (line 18); the handlers only   *)
(* compare against it, so the model scales it down.  Words are 32 bits     *)
(* and millis() is a 32-bit counter in the sketch; both widths are scaled  *)
(* down.  MaxTime is the last clock value of the interleaving model and    *)
(* MaxLoads the number of load_frame calls it follows.                     *)
(***************************************************************************)
MAX_FRAMES == 3
WordBits == 4
ClockBits == 10
MaxTime == 3
MaxLoads == MAX_FRAMES + 2
PollHorizon == 600

WordMod == 2 ^ WordBits
MillisMod == 2 ^ ClockBits

\* Inputs offered to the providers.
Durations == {0, 2}
Frame(seed, d) == << seed % WordMod, (seed + 1) % WordMod,
                     (seed + 2) % WordMod, (seed + 3) % WordMod, d >>
FrameInputs == { Frame(1, d) : d \in Durations }
DrawInputs == { <<>>, <<0, 7>> }
ZeroFrame == <<0, 0, 0, 0, 0>>

Max(a, b) == IF a >= b THEN a ELSE b

VARIABLES
  animation_buf,            \* [0..MAX_FRAMES-1 -> frame]      (line 19)
  animation_frame_count,    \*                                 (line 20)
  animation_running,        \*                                 (line 21)
  animation_current_frame,  \*                                 (line 22)
  animation_next_time,      \*                                 (line 23)
  now,                      \* value millis() returns
  matrix,                   \* what the Display Sink was last handed (line 15)
  \* ---- history variables (not read by any handler) ----
  last,                     \* the last operation and what it touched
  buf_id,                   \* ordinal of the load_frame call that filled a slot
  seq,                      \* number of load_frame calls so far
  rejected,                 \* ordinals of the load_frame calls refused
  rendered,                 \* renders since the last play_animation
  scen,                     \* "N loads on an empty store, then play" tracker
  playedEmpty,              \* play_animation was once called with no frame
  sinceStop,                \* calls seen since the last effective stop_animation
  lastIdx                   \* index last rendered since the store was reset

\* The web front-ends that drive the sketches (JavaScript).
VARIABLES
  \* ---- LED matrix painter: playback simulation ----
  sessionFrames,            \* ids of the frames of the session    (line 206)
  animationTimeout,         \* "null" or "timer"                   (line 524)
  playAwaiting,             \* playAnimation is suspended at its await (568)
  playDisabled,             \* playAnimationBtn.disabled
  currentFrameIndex,        \* closure variable of playAnimation   (line 578)
  stopClicked,              \* history: stop was clicked since the last play click
  \* ---- LED matrix painter: undo history and auto-persist ----
  history,                  \*                                     (line 212)
  historyIndex,             \* 0-based, -1 when empty              (line 213)
  grid,                     \* the grid the editor shows
  persistTimeout,           \* 0 for null, or the due time of its timer (216)
  timers,                   \* due times of the persist timers that are armed
  uiNow,                    \* the browser's clock, ms
  lastCallAt,               \* history: time of the last schedulePersist, or -1
  burstFires,               \* history: persistFrame calls since the burst began
  firedAt,                  \* history: time of the last persistFrame, or -1
  \* ---- Color your LEDs ----
  ledState,                 \*                                     (part_001 8-13)
  sent                      \* set_color messages the last handler emitted

simVars == << sessionFrames, animationTimeout, playAwaiting, playDisabled,
              currentFrameIndex, stopClicked >>
editVars == << history, historyIndex, grid, persistTimeout, timers, uiNow,
               lastCallAt, burstFires, firedAt >>
ledVars == << ledState, sent >>
web == << simVars, editVars, ledVars >>

prog == << animation_buf, animation_frame_count, animation_running,
           animation_current_frame, animation_next_time >>
hist == << last, buf_id, seq, rejected, rendered, scen, playedEmpty,
           sinceStop, lastIdx >>
vars == << animation_buf, animation_frame_count, animation_running,
           animation_current_frame, animation_next_time, now, matrix,
           last, buf_id, seq, rejected, rendered, scen, playedEmpty,
           sinceStop, lastIdx, web >>

\* the sketch as a whole, for the steps of the front-ends
sketch == << prog, now, matrix, buf_id, seq, rejected, rendered, scen,
             playedEmpty, sinceStop, lastIdx >>

Slots == 0 .. (MAX_FRAMES - 1)

Op(name, arg, slot, cnt) == [op |-> name, arg |-> arg, slot |-> slot, cnt |-> cnt]
NoScen == [phase |-> "none", n |-> 0, first |-> 0, idle |-> FALSE]

(***************************************************************************)
(* Bit Formatter: reverse() of Arduino_LED_Matrix, called at lines         *)
(* 113-116; bit j of the input becomes bit WordBits-1-j of the output.     *)
(***************************************************************************)
RECURSIVE reverseBits(_, _, _)
reverseBits(w, n, acc) ==
  IF n = 0 THEN acc ELSE reverseBits(w \div 2, n - 1, acc * 2 + (w % 2))

\* a formatter that rotates the word by one place instead
reverse_rotate(w) == ((w * 2) % WordMod) + ((w * 2) \div WordMod)
reverse(w) == reverseBits(w, WordBits, 0)

\* Colours as the six hex digits of '#RRGGBB' (part_001).
White == << 15, 15, 15, 15, 15, 15 >>
Leds == 1 .. 4

\* hexToRgb (part_001 lines 120-125)
hexToRgb(hex) == [r |-> 16 * hex[1] + hex[2],
                  g |-> 16 * hex[3] + hex[4],
                  b |-> 16 * hex[5] + hex[6]]

\* socket.emit('set_color', ...)
SetColor(ledNumber, rgb) == [led |-> ledNumber, color |-> rgb]

\* The pages as loaded: the initialisers of the script globals, and, for
\* Color your LEDs, the DOMContentLoaded handler (part_001 15-21), whose
\* four setup calls each emit the initial colour through updateColor.
WebInit ==
  /\ sessionFrames = <<>>
  /\ animationTimeout = "null"
  /\ playAwaiting = FALSE
  /\ playDisabled = FALSE
  /\ currentFrameIndex = 0
  /\ stopClicked = FALSE
  /\ history = <<>>
  /\ historyIndex = -1
  /\ grid = 0
  /\ persistTimeout = 0
  /\ timers = <<>>
  /\ uiNow = 0
  /\ lastCallAt = -1
  /\ burstFires = 0
  /\ firedAt = -1
  /\ ledState = [l \in Leds |-> [color |-> White, isOn |-> TRUE]]
  /\ sent = [l \in Leds |-> SetColor(l, hexToRgb(White))]

\* setup(): matrix.clear(), globals zero-initialised (lines 18-38).
Init ==
  /\ WebInit
  /\ animation_buf = [i \in Slots |-> ZeroFrame]
  /\ animation_frame_count = 0
  /\ animation_running = FALSE
  /\ animation_current_frame = 0
  /\ animation_next_time = 0
  /\ now = 0
  /\ matrix = [src |-> "clear", data |-> <<>>]
  /\ last = Op("boot", <<>>, -1, 0)
  /\ buf_id = [i \in Slots |-> 0]
  /\ seq = 0
  /\ rejected = {}
  /\ rendered = <<>>
  /\ scen = NoScen
  /\ playedEmpty = FALSE
  /\ sinceStop = "none"
  /\ lastIdx = -1

\* The panel has one cell per byte of a draw buffer (sketch.ino line 203).
PanelRows == 8
PanelCols == 13
PanelCells == PanelRows * PanelCols

\* line 46: the early return of draw
DrawEmpty_never(frame) == FALSE
DrawEmpty(frame) == frame = <<>>

\* a draw that yields to a running animation: the buffer is dropped
draw_arbitrated(frame) ==
  /\ IF DrawEmpty(frame) \/ animation_running
       THEN /\ matrix' = matrix
            /\ last' = Op("draw_empty", frame, -1, animation_frame_count)
       ELSE /\ matrix' = [src |-> "draw", data |-> frame]
            /\ last' = Op("draw", frame, -1, animation_frame_count)
  /\ UNCHANGED << prog, now, buf_id, seq, rejected, rendered, scen, playedEmpty,
                  sinceStop, lastIdx >>
  /\ UNCHANGED web

\* draw (lines 45-53)
draw(frame) ==
  /\ IF DrawEmpty(frame)
       THEN /\ UNCHANGED matrix
            /\ last' = Op("draw_empty", frame, -1, animation_frame_count)
       ELSE /\ matrix' = [src |-> "draw", data |-> frame]
            /\ last' = Op("draw", frame, -1, animation_frame_count)
  /\ UNCHANGED << prog, now, buf_id, seq, rejected, rendered, scen, playedEmpty,
                  sinceStop, lastIdx >>
  /\ UNCHANGED web

\* line 63: the capacity test of load_frame
BufferFull_gt == animation_frame_count > MAX_FRAMES
BufferFull == animation_frame_count >= MAX_FRAMES

\* line 66: the count a refused load_frame leaves
TruncatedCount_less == MAX_FRAMES - 1
TruncatedCount == MAX_FRAMES

\* lines 70-74: the slot an accepted load_frame fills
StoreSlot_current == animation_current_frame
StoreSlot == animation_frame_count

\* history only: which of load_frame / play_animation were called since the
\* last stop_animation that halted a playback ("none" once both were)
SinceStopAfter(call) ==
  CASE sinceStop = "stopped" -> (IF call = "load" THEN "loaded" ELSE "played")
    [] sinceStop = "loaded"  -> (IF call = "play" THEN "none" ELSE "loaded")
    [] sinceStop = "played"  -> (IF call = "load" THEN "none" ELSE "played")
    [] OTHER -> "none"

\* history only: follows "N load_frame calls on an empty store, then play"
ScenAfterLoad ==
  IF animation_frame_count = 0
    THEN [phase |-> "loading", n |-> 1, first |-> seq + 1,
          idle |-> ~animation_running]
    ELSE IF scen.phase = "loading" /\ scen.n < MAX_FRAMES
           THEN [scen EXCEPT !.n = @ + 1]
           ELSE NoScen

\* lines 62-79 of load_frame: everything load_frame assigns.
LoadStore(animation_bytes) ==
  /\ seq < MaxLoads
  /\ seq' = seq + 1
  /\ scen' = ScenAfterLoad
  /\ IF BufferFull
       THEN /\ animation_frame_count' = TruncatedCount
            /\ rejected' = rejected \cup {seq + 1}
            /\ last' = Op("load_reject", animation_bytes, -1, animation_frame_count)
            /\ UNCHANGED << animation_buf, buf_id >>
       ELSE /\ animation_buf' =
                 [i \in Slots |-> IF i = StoreSlot
                                    THEN animation_bytes
                                    ELSE animation_buf[i]]
            /\ buf_id' = [i \in Slots |-> IF i = StoreSlot
                                            THEN seq + 1 ELSE buf_id[i]]
            /\ animation_frame_count' = animation_frame_count + 1
            /\ last' = Op("load_accept", animation_bytes,
                          StoreSlot, animation_frame_count)
            /\ UNCHANGED rejected
  /\ sinceStop' = SinceStopAfter("load")
  /\ UNCHANGED << now, matrix, rendered, playedEmpty, lastIdx >>
  /\ UNCHANGED web

\* a load_frame that also rewinds the playback
load_frame_rewinds(animation_bytes) ==
  /\ LoadStore(animation_bytes)
  /\ animation_current_frame' = 0
  /\ UNCHANGED << animation_running, animation_next_time >>

\* load_frame (lines 55-80).  animation_bytes is a std::array of 5 words,
\* so the empty() test of line 57 is never true.
load_frame(animation_bytes) ==
  /\ LoadStore(animation_bytes)
  /\ UNCHANGED << animation_running, animation_current_frame,
                  animation_next_time >>

\* line 85: the deadline play_animation sets
PlayDeadline_next_ms == (now + 1) % MillisMod
PlayDeadline == now

\* line 83: the index play_animation sets
PlayFirstFrame_keep == animation_current_frame
PlayFirstFrame == 0

\* play_animation (lines 82-88)
play_animation ==
  /\ animation_current_frame' = PlayFirstFrame
  /\ animation_running' = TRUE
  /\ animation_next_time' = PlayDeadline
  /\ last' = Op("play", <<>>, -1, animation_frame_count)
  /\ rendered' = <<>>
  /\ scen' = IF scen.phase = "loading"
               THEN [scen EXCEPT !.phase = "playing"] ELSE NoScen
  /\ playedEmpty' = (playedEmpty \/ animation_frame_count = 0)
  /\ sinceStop' = SinceStopAfter("play")
  /\ UNCHANGED << animation_buf, animation_frame_count, now, matrix,
                  buf_id, seq, rejected, lastIdx >>
  /\ UNCHANGED web

\* line 92: the early return of stop_animation
StopIdle_never == FALSE
StopIdle == ~animation_running

\* line 97: the frame count an effective stop_animation leaves
StoppedCount_keep == animation_frame_count
StoppedCount == 0

\* a stop_animation that does not return when nothing is running
stop_animation_hangs ==
  /\ ~StopIdle
  /\ animation_running' = FALSE
  /\ animation_frame_count' = StoppedCount
  /\ last' = Op("stop", <<>>, -1, animation_frame_count)
  /\ sinceStop' = "stopped"
  /\ lastIdx' = -1
  /\ scen' = NoScen
  /\ UNCHANGED << animation_buf, animation_current_frame, animation_next_time,
                  now, matrix, buf_id, seq, rejected, rendered, playedEmpty >>
  /\ UNCHANGED web

\* stop_animation (lines 91-99)
stop_animation ==
  /\ IF StopIdle
       THEN /\ last' = Op("stop_idle", <<>>, -1, animation_frame_count)
            /\ UNCHANGED << animation_running, animation_frame_count,
                            sinceStop, lastIdx >>
       ELSE /\ animation_running' = FALSE
            /\ animation_frame_count' = StoppedCount
            /\ last' = Op("stop", <<>>, -1, animation_frame_count)
            /\ sinceStop' = "stopped"
            /\ lastIdx' = -1
  /\ scen' = NoScen
  /\ UNCHANGED << animation_buf, animation_current_frame, animation_next_time,
                  now, matrix, buf_id, seq, rejected, rendered, playedEmpty >>
  /\ UNCHANGED web

\* line 103: the first early return of animation_tick
TickIdle_running_only == ~animation_running
TickIdle == ~animation_running \/ animation_frame_count = 0

\* line 106: the second early return of animation_tick
TickEarly_strict == now + 1 < animation_next_time
TickEarly == now < animation_next_time

\* lines 122-123: the 1 ms floor
Interval_nofloor(f) == f[5]
Interval(f) == IF f[5] = 0 THEN 1 ELSE f[5]

\* line 124: the deadline a rendering tick sets
NextDeadline_from_previous(f) == (animation_next_time + Interval(f)) % MillisMod
NextDeadline(f) == (now + Interval(f)) % MillisMod

\* line 128: the running flag once the last frame was rendered
DoneRunning_stay == TRUE
DoneRunning == FALSE

\* line 126: the index after a render
NextFrame_stay(i) == i
NextFrame_skip(i) == i + 2
NextFrame(i) == i + 1

\* line 127: the end-of-buffer test, on the incremented index
AnimationDone_gt(cur, cnt) == cur > cnt
AnimationDone(cur, cnt) == cur >= cnt

\* lines 113-116 with the words taken one place further on, so that the
\* duration is handed over as well
FormattedFrame_shifted(i) ==
  LET f == IF i \in Slots THEN animation_buf[i] ELSE ZeroFrame
  IN  << reverse(f[2]), reverse(f[3]), reverse(f[4]), reverse(f[5]) >>

\* lines 113-116: the four words handed to matrixWrite.  A read at an index
\* outside the array has no defined value; the handlers keep the index
\* inside it (see TickReadsInsideStore).
FormattedFrame(i) ==
  LET f == IF i \in Slots THEN animation_buf[i] ELSE ZeroFrame
  IN  << reverse(f[1]), reverse(f[2]), reverse(f[3]), reverse(f[4]) >>

\* animation_tick (lines 102-133), called by loop() (lines 40-43)
animation_tick ==
  /\ IF TickIdle
       THEN /\ last' = Op("tick_skip", <<>>, -1, animation_frame_count)
            /\ UNCHANGED << prog, matrix, rendered, lastIdx >>
       ELSE IF TickEarly
         THEN /\ last' = Op("tick_wait", <<>>, -1, animation_frame_count)
              /\ UNCHANGED << prog, matrix, rendered, lastIdx >>
         ELSE LET i == animation_current_frame
                  f == IF i \in Slots THEN animation_buf[i] ELSE ZeroFrame
              IN  /\ matrix' = [src |-> "frame", data |-> FormattedFrame(i)]
                  /\ animation_next_time' = NextDeadline(f)
                  /\ IF AnimationDone(NextFrame(i), animation_frame_count)
                       THEN /\ animation_running' = DoneRunning
                            /\ animation_frame_count' = 0
                            /\ animation_current_frame' = 0
                            /\ lastIdx' = -1
                       ELSE /\ animation_current_frame' = NextFrame(i)
                            /\ lastIdx' = i
                            /\ UNCHANGED << animation_running,
                                            animation_frame_count >>
                  /\ last' = Op("tick_render", f, i, animation_frame_count)
                  /\ rendered' = Append(rendered,
                        [idx |-> i,
                         id |-> IF i \in Slots THEN buf_id[i] ELSE 0,
                         t |-> now, dur |-> f[5]])
                  /\ UNCHANGED animation_buf
  /\ UNCHANGED << now, buf_id, seq, rejected, scen, playedEmpty, sinceStop >>
  /\ UNCHANGED web

\* the millisecond clock behind millis() (lines 85, 105)
Advance(limit) ==
  /\ now < limit
  /\ now' = (now + 1) % MillisMod
  /\ last' = Op("advance", <<>>, -1, animation_frame_count)
  /\ UNCHANGED << prog, matrix, buf_id, seq, rejected, rendered, scen,
                  playedEmpty, sinceStop, lastIdx >>
  /\ UNCHANGED web

Next ==
  \/ \E frame \in DrawInputs : draw(frame)
  \/ \E animation_bytes \in FrameInputs : load_frame(animation_bytes)
  \/ play_animation
  \/ stop_animation
  \/ animation_tick
  \/ Advance(MaxTime)

Spec == Init /\ [][Next]_vars

(***************************************************************************)
(* The tick polled at every millisecond after a play at t = 0: frames are  *)
(* loaded at t = 0, play_animation follows, and from then on only          *)
(* animation_tick and the clock run; the clock moves on only after loop()  *)
(* has called the tick at the current millisecond.                         *)
(***************************************************************************)
PolledDurations == {0, 100, 200, 300}
PolledFrames == { Frame(1, d) : d \in PolledDurations }
TickOps == {"tick_skip", "tick_wait", "tick_render"}

PolledLoad ==
  /\ scen.phase \in {"none", "loading"}
  /\ ~BufferFull
  /\ \E animation_bytes \in PolledFrames : load_frame(animation_bytes)

PolledPlay == scen.phase = "loading" /\ play_animation

PolledTick == scen.phase = "playing" /\ animation_tick

PolledAdvance ==
  /\ scen.phase = "playing"
  /\ last.op \in TickOps
  /\ Advance(PollHorizon)

NextPolled == PolledLoad \/ PolledPlay \/ PolledTick \/ PolledAdvance

SpecPolled == Init /\ [][NextPolled]_vars

(***************************************************************************)
(* Scheduler liveness.  loop() calls animation_tick for ever (lines 40-43) *)
(* and the clock keeps advancing: both are weakly fair.  The providers are *)
(* called only before the clock reaches LiveHorizon, so every behaviour    *)
(* has a point after which no load_frame or play_animation arrives.  To    *)
(* let the clock run on in a finite model, once now = LiveHorizon a        *)
(* millisecond passes by moving the time origin instead: every timestamp   *)
(* in the past of `now` is lowered by one (the handlers only compare now   *)
(* with the deadline and add to now, so they cannot tell; a deadline or a  *)
(* render time that is already 0 is in the past and stays 0).              *)
(***************************************************************************)
LiveHorizon == 1

LiveCall ==
  /\ now < LiveHorizon
  /\ \/ \E animation_bytes \in FrameInputs : load_frame(animation_bytes)
     \/ play_animation
     \/ stop_animation

LiveTick == animation_tick

LiveClock ==
  \/ Advance(LiveHorizon)
  \/ /\ now = LiveHorizon
     /\ animation_next_time' = Max(animation_next_time - 1, 0)
     /\ rendered' = [k \in 1 .. Len(rendered) |->
                       [rendered[k] EXCEPT !.t = Max(@ - 1, 0)]]
     /\ last' = Op("advance", <<>>, -1, animation_frame_count)
     /\ UNCHANGED << animation_buf, animation_frame_count, animation_running,
                     animation_current_frame, now, matrix, buf_id, seq,
                     rejected, scen, playedEmpty, sinceStop, lastIdx, web >>

NextLive == LiveCall \/ LiveTick \/ LiveClock

SpecLive ==
  /\ Init
  /\ [][NextLive]_vars
  /\ WF_vars(LiveTick)
  /\ WF_vars(LiveClock)

(***************************************************************************)
(* The Bit Formatter on every pair of word values: one frame is loaded,    *)
(* played and rendered by the tick, and the words handed to the Display    *)
(* Sink are then put through reverse() once more.                          *)
(***************************************************************************)
AllWords == 0 .. (WordMod - 1)
WideFrames == { << a, b, (a + 1) % WordMod, (b + 1) % WordMod, d >> :
                  a \in AllWords, b \in AllWords, d \in Durations }

FormatLoad ==
  /\ seq = 0
  /\ \E animation_bytes \in WideFrames : load_frame(animation_bytes)

FormatPlay == last.op = "load_accept" /\ play_animation

FormatTick == last.op = "play" /\ animation_tick

FormatAgain ==
  /\ last.op = "tick_render"
  /\ last' = Op("format_again",
                << reverse(matrix.data[1]), reverse(matrix.data[2]),
                   reverse(matrix.data[3]), reverse(matrix.data[4]) >>,
                last.slot, last.cnt)
  /\ UNCHANGED << prog, now, matrix, buf_id, seq, rejected, rendered, scen,
                  playedEmpty, sinceStop, lastIdx >>
  /\ UNCHANGED web

NextFormat == FormatLoad \/ FormatPlay \/ FormatTick \/ FormatAgain

SpecFormat == Init /\ [][NextFormat]_vars

(***************************************************************************)
(* The engine around the wrap of millis(): unsigned long is WordBits of    *)
(* the target wide, here ClockBits.  After boot the engine sits idle, its  *)
(* ticks returning at line 103, until WrapLead ms before the counter       *)
(* wraps; from there the clock is followed for WrapSpan ms.                *)
(***************************************************************************)
WrapLead == 2
WrapSpan == 5

WrapLoad == \E animation_bytes \in FrameInputs : load_frame(animation_bytes)

WrapPlay == play_animation

WrapTick == animation_tick

WrapClock ==
  /\ IF last.op = "boot"
       THEN now' = MillisMod - WrapLead
       ELSE /\ (now + WrapLead) % MillisMod < WrapSpan - 1
            /\ now' = (now + 1) % MillisMod
  /\ last' = Op("advance", <<>>, -1, animation_frame_count)
  /\ UNCHANGED << prog, matrix, buf_id, seq, rejected, rendered, scen,
                  playedEmpty, sinceStop, lastIdx >>
  /\ UNCHANGED web

NextWrap == WrapLoad \/ WrapPlay \/ WrapTick \/ WrapClock

SpecWrap == Init /\ [][NextWrap]_vars

(***************************************************************************)
(* LED matrix painter, front-end: the simulated playback (sketch.ino lines *)
(* 524-623).  playAnimation is an async function: it runs up to its await  *)
(* of the /play_animation response and resumes when the response is in.    *)
(***************************************************************************)
MaxSession == 2

WebOp(name) == Op(name, <<>>, -1, 0)

\* refreshFrames (lines 681-684): the session's frames as the server lists
\* them
refreshFrames ==
  /\ \E n \in 0 .. MaxSession : sessionFrames' = [k \in 1 .. n |-> k]
  /\ last' = WebOp("refreshFrames")
  /\ UNCHANGED << animationTimeout, playAwaiting, playDisabled,
                  currentFrameIndex, stopClicked, editVars, ledVars, sketch >>

\* displayFrame (lines 526-537) shows the frame in the editor grid
displayFrame(frame) == grid' = frame

\* animateNextFrame (lines 579-594)
animateNextFrame(index) ==
  IF index >= Len(sessionFrames)
    THEN /\ playDisabled' = FALSE
         /\ animationTimeout' = "null"
         /\ last' = WebOp("animationFinished")
         /\ UNCHANGED << currentFrameIndex, grid >>
    ELSE /\ displayFrame(sessionFrames[index + 1])
         /\ currentFrameIndex' = index + 1
         /\ animationTimeout' = "timer"
         /\ last' = WebOp("displayFrame")
         /\ UNCHANGED playDisabled

\* click on the play button: playAnimation up to its await (lines 539-568).
\* A disabled button delivers no click.
playAnimation ==
  /\ ~playDisabled
  /\ animationTimeout' = "null"
  /\ IF Len(sessionFrames) = 0
       THEN /\ playDisabled' = FALSE
            /\ UNCHANGED playAwaiting
       ELSE /\ playDisabled' = TRUE
            /\ playAwaiting' = TRUE
  /\ stopClicked' = FALSE
  /\ last' = WebOp("playAnimation")
  /\ UNCHANGED << sessionFrames, currentFrameIndex, editVars, ledVars, sketch >>

\* the /play_animation response arrives: playAnimation resumes (lines
\* 568-601); ok is FALSE for data.error and for a failed request.
playAnimationResumes(ok) ==
  /\ playAwaiting
  /\ playAwaiting' = FALSE
  /\ IF ok
       THEN animateNextFrame(0)
       ELSE /\ playDisabled' = FALSE
            /\ last' = WebOp("playAnimationFailed")
            /\ UNCHANGED << animationTimeout, currentFrameIndex, grid >>
  /\ UNCHANGED << sessionFrames, stopClicked, history, historyIndex,
                  persistTimeout, timers, uiNow, lastCallAt, burstFires,
                  firedAt, ledVars, sketch >>

\* the timer of line 593 fires
animationTimer ==
  /\ animationTimeout = "timer"
  /\ animateNextFrame(currentFrameIndex)
  /\ UNCHANGED << sessionFrames, playAwaiting, stopClicked, history,
                  historyIndex, persistTimeout, timers, uiNow, lastCallAt,
                  burstFires, firedAt, ledVars, sketch >>

\* click on the stop button (lines 606-623)
stopAnimationClick ==
  /\ IF animationTimeout # "null"
       THEN /\ animationTimeout' = "null"
            /\ playDisabled' = FALSE
       ELSE UNCHANGED << animationTimeout, playDisabled >>
  /\ stopClicked' = TRUE
  /\ last' = WebOp("stopAnimation")
  /\ UNCHANGED << sessionFrames, playAwaiting, currentFrameIndex, editVars,
                  ledVars, sketch >>

NextSim ==
  \/ refreshFrames
  \/ playAnimation
  \/ \E ok \in BOOLEAN : playAnimationResumes(ok)
  \/ animationTimer
  \/ stopAnimationClick

SpecSim == Init /\ [][NextSim]_vars

(***************************************************************************)
(* LED matrix painter, front-end: undo history (lines 212-238, 625-648)    *)
(* and the debounced auto-persist (lines 215-217, 368-374).  A grid is     *)
(* stood for by a number; JSON.stringify of two grids is equal exactly     *)
(* when the grids are.  Timers are taken to run on time: the clock does    *)
(* not pass the due time of an armed timer, and a due timer runs before    *)
(* an event of the same millisecond is handled.                            *)
(***************************************************************************)
MaxHistory == 3
MaxGrid == 1
PersistHorizon == 400
AUTO_PERSIST_DELAY_MS == 150
PersistStep == AUTO_PERSIST_DELAY_MS \div 3

Grids == 0 .. MaxGrid

RECURSIVE Without(_, _)
Without(q, x) ==
  IF q = <<>> THEN <<>>
  ELSE IF Head(q) = x THEN Tail(q)
  ELSE << Head(q) >> \o Without(Tail(q), x)

\* lines 228-230: the entries pushStateToHistory keeps
Truncated_keep(h, i) == h
Truncated(h, i) == IF i < Len(h) - 1 THEN SubSeq(h, 1, i + 1) ELSE h

\* line 232: the duplicate test, on the entries kept
IsDuplicate(h, gridState) == Len(h) > 0 /\ h[Len(h)] = gridState

\* pushStateToHistory (lines 226-238), on a history h with index i
pushStateToHistory(h, i, gridState) ==
  LET kept == Truncated(h, i)
  IN  IF IsDuplicate(kept, gridState)
        THEN /\ history' = kept
             /\ historyIndex' = i
        ELSE /\ history' = Append(kept, gridState)
             /\ historyIndex' = i + 1

\* line 369: the timers still armed after the clearTimeout
Cleared_keep == timers
Cleared ==
  IF persistTimeout # 0 THEN Without(timers, persistTimeout) ELSE timers

\* schedulePersist (lines 368-374)
schedulePersist ==
  /\ timers' = Append(Cleared, uiNow + AUTO_PERSIST_DELAY_MS)
  /\ persistTimeout' = uiNow + AUTO_PERSIST_DELAY_MS
  /\ burstFires' = IF lastCallAt >= 0
                        /\ uiNow - lastCallAt < AUTO_PERSIST_DELAY_MS
                     THEN burstFires ELSE 0
  /\ lastCallAt' = uiNow
  /\ UNCHANGED << uiNow, firedAt >>

TimerDue == \E k \in 1 .. Len(timers) : timers[k] <= uiNow

\* shiftGrid, clear and paint (lines 925-937, 1117-1123, 1196-1205): the
\* grid changes, its state is pushed and a persist is scheduled
editGrid(newGrid) ==
  /\ ~TimerDue
  /\ Len(Truncated(history, historyIndex)) < MaxHistory
  /\ grid' = newGrid
  /\ pushStateToHistory(history, historyIndex, newGrid)
  /\ schedulePersist
  /\ last' = Op("editGrid", << newGrid >>, historyIndex, Len(history))
  /\ UNCHANGED << simVars, ledVars, sketch >>

\* transform (lines 870-885): the grid changes and a persist is scheduled
transformGrid(newGrid) ==
  /\ ~TimerDue
  /\ grid' = newGrid
  /\ schedulePersist
  /\ last' = Op("transformGrid", << newGrid >>, -1, 0)
  /\ UNCHANGED << history, historyIndex, simVars, ledVars, sketch >>

\* history[i] as JavaScript reads it: undefined (-1) outside the array
HistoryEntry(i) ==
  IF i \in 0 .. (Len(history) - 1) THEN history[i + 1] ELSE -1

\* line 630: the guard of the undo handler
UndoAllowed_ge == historyIndex >= 0
UndoAllowed == historyIndex > 0

\* click on undo (lines 628-637)
undoClick ==
  /\ ~TimerDue
  /\ IF UndoAllowed
       THEN /\ historyIndex' = historyIndex - 1
            /\ grid' = HistoryEntry(historyIndex')
            /\ schedulePersist
            /\ last' = WebOp("undo")
       ELSE /\ last' = WebOp("undo_none")
            /\ UNCHANGED << historyIndex, grid, persistTimeout, timers, uiNow,
                            lastCallAt, burstFires, firedAt >>
  /\ UNCHANGED << history, simVars, ledVars, sketch >>

\* click on redo (lines 639-648)
redoClick ==
  /\ ~TimerDue
  /\ IF historyIndex < Len(history) - 1
       THEN /\ historyIndex' = historyIndex + 1
            /\ grid' = HistoryEntry(historyIndex')
            /\ schedulePersist
            /\ last' = WebOp("redo")
       ELSE /\ last' = WebOp("redo_none")
            /\ UNCHANGED << historyIndex, grid, persistTimeout, timers, uiNow,
                            lastCallAt, burstFires, firedAt >>
  /\ UNCHANGED << history, simVars, ledVars, sketch >>

\* initEditor and the other loads of a frame (lines 475-479, 1019-1021,
\* 1102-1104): the history is reset to the loaded grid
initEditor(loaded) ==
  /\ ~TimerDue
  /\ grid' = loaded
  /\ pushStateToHistory(<<>>, -1, loaded)
  /\ last' = Op("initEditor", << loaded >>, -1, 0)
  /\ UNCHANGED << persistTimeout, timers, uiNow, lastCallAt, burstFires,
                  firedAt, simVars, ledVars, sketch >>

\* the timer of schedulePersist fires (lines 370-373)
persistTimer ==
  /\ \E k \in 1 .. Len(timers) :
       /\ timers[k] <= uiNow
       /\ timers' = Without(timers, timers[k])
  /\ persistTimeout' = 0
  /\ firedAt' = uiNow
  /\ burstFires' = burstFires + 1
  /\ last' = WebOp("persistFrame")
  /\ UNCHANGED << history, historyIndex, grid, uiNow, lastCallAt, simVars,
                  ledVars, sketch >>

\* the browser's clock
uiClock ==
  /\ ~TimerDue
  /\ uiNow < PersistHorizon
  /\ uiNow' = IF \E k \in 1 .. Len(timers) : timers[k] < uiNow + PersistStep
                THEN CHOOSE t \in { timers[k] : k \in 1 .. Len(timers) } :
                       \A k \in 1 .. Len(timers) : t <= timers[k]
                ELSE uiNow + PersistStep
  /\ last' = WebOp("uiClock")
  /\ UNCHANGED << history, historyIndex, grid, persistTimeout, timers,
                  lastCallAt, burstFires, firedAt, simVars, ledVars, sketch >>

NextEdit ==
  \/ \E newGrid \in Grids : editGrid(newGrid)
  \/ \E newGrid \in Grids : transformGrid(newGrid)
  \/ undoClick
  \/ redoClick
  \/ \E loaded \in Grids : initEditor(loaded)
  \/ persistTimer
  \/ uiClock

SpecEdit == Init /\ [][NextEdit]_vars

(***************************************************************************)
(* Color your LEDs, front-end (part_001).  LEDs 1, 2 and 4 have a palette, *)
(* LED 3 a colour picker and a hex input; each has a switch.               *)
(***************************************************************************)
Red == << 15, 15, 0, 0, 0, 0 >>
Black == << 0, 0, 0, 0, 0, 0 >>
ColorInputs == { White, Red, Black }
HexInputs == ColorInputs \cup { << 15, 15 >> }
PaletteLeds == { 1, 2, 4 }
PickerLeds == { 3 }

\* the test /^#[0-9A-F]{6}$/i of line 84
IsHexColor(text) == Len(text) = 6 /\ \A k \in 1 .. 6 : text[k] \in 0 .. 15

\* updateColor (lines 93-118) on the state ls: the new state and the
\* messages emitted
updateColor(ls, ledNumber, newColor) ==
  [ledState |-> [ls EXCEPT ![ledNumber].color = newColor],
   sent |-> IF ls[ledNumber].isOn \/ newColor = Black
              THEN << SetColor(ledNumber, hexToRgb(newColor)) >>
              ELSE <<>>]

LedOp(name, arg, ledNumber) ==
  Op(name, arg, ledNumber, IF ledState[ledNumber].isOn THEN 1 ELSE 0)

\* the switch's change handler (lines 28-37, 59-67)
switchChange(ledNumber, checked) ==
  /\ LET ls == [ledState EXCEPT ![ledNumber].isOn = checked]
     IN  IF checked
           THEN LET u == updateColor(ls, ledNumber, ls[ledNumber].color)
                IN  ledState' = u.ledState /\ sent' = u.sent
           ELSE /\ ledState' = ls
                /\ sent' = << SetColor(ledNumber, [r |-> 0, g |-> 0, b |-> 0]) >>
  /\ last' = LedOp(IF checked THEN "switch_on" ELSE "switch_off", <<>>,
                   ledNumber)
  /\ UNCHANGED << simVars, editVars, sketch >>

\* lines 41, 76, 83: the isOn guard of the colour inputs
ColorAllowed_always(ledNumber) == TRUE
ColorAllowed(ledNumber) == ledState[ledNumber].isOn

\* a colour input that passed its handler's tests, or not
colorInput(name, ledNumber, newColor, valid) ==
  /\ IF ColorAllowed(ledNumber) /\ valid
       THEN LET u == updateColor(ledState, ledNumber, newColor)
            IN  ledState' = u.ledState /\ sent' = u.sent
       ELSE ledState' = ledState /\ sent' = <<>>
  /\ last' = LedOp(name, << newColor >>, ledNumber)
  /\ UNCHANGED << simVars, editVars, sketch >>

\* click on a colour square of the palette (lines 39-46)
paletteClick(ledNumber, newColor) ==
  /\ ledNumber \in PaletteLeds
  /\ colorInput("palette", ledNumber, newColor, TRUE)

\* input event of the colour picker (lines 75-79)
pickerInput(ledNumber, newColor) ==
  /\ ledNumber \in PickerLeds
  /\ colorInput("picker", ledNumber, newColor, TRUE)

\* change event of the hex input (lines 81-88)
hexChange(ledNumber, text) ==
  /\ ledNumber \in PickerLeds
  /\ colorInput("hex", ledNumber, text, IsHexColor(text))

NextLeds ==
  \/ \E l \in Leds, checked \in BOOLEAN : switchChange(l, checked)
  \/ \E l \in PaletteLeds, c \in ColorInputs : paletteClick(l, c)
  \/ \E l \in PickerLeds, c \in ColorInputs : pickerInput(l, c)
  \/ \E l \in PickerLeds, text \in HexInputs : hexChange(l, text)

SpecLeds == Init /\ [][NextLeds]_vars

(***************************************************************************)
(* Properties                                                              *)
(***************************************************************************)

\* The renders since the last play are the frames of the tracked scenario,
\* index k-1 at position k, holding the k-th frame ingested, and what is
\* left to render is exactly the rest of the N frames.
ScenarioPlaysEachOnce ==
  /\ Len(rendered) <= scen.n
  /\ \A k \in 1 .. Len(rendered) :
        /\ rendered[k].idx = k - 1
        /\ rendered[k].id = scen.first + k - 1
  /\ IF animation_running
       THEN /\ animation_frame_count = scen.n
            /\ animation_current_frame = Len(rendered)
       ELSE Len(rendered) = scen.n

\* C1 as stated: after N <= capacity load_frame calls on an empty Frame
\* Store followed by play_animation, with no further load/play/stop, the
\* ticks render frames 0..N-1 in ingestion order, each exactly once.
C1_PlaysEachFrameOnce_AnyEmptyStore ==
  scen.phase = "playing" => ScenarioPlaysEachOnce

\* C1 amended: the same, when the engine is Idle (running == false) at the
\* first of the N load_frame calls.
C1_PlaysEachFrameOnce_FromIdle ==
  (scen.phase = "playing" /\ scen.idle) => ScenarioPlaysEachOnce

C1_Witness ==
  /\ scen.phase = "playing" /\ scen.idle /\ scen.n = MAX_FRAMES
  /\ ~animation_running
  /\ Len(rendered) = MAX_FRAMES
  /\ last.op = "tick_render"

\* C2: a tick never reads the Frame Store at an index >= frame_count (nor
\* >= capacity), and reads nothing at all when frame_count is 0.
C2_TickReadsInsideStore ==
  last.op \in TickOps =>
    /\ last.slot # -1 => (0 <= last.slot /\ last.slot < last.cnt
                          /\ last.slot < MAX_FRAMES)
    /\ last.cnt = 0 => (last.slot = -1 /\ last.op = "tick_skip")

C2_Witness ==
  /\ playedEmpty
  /\ last.op = "tick_render"
  /\ last.slot = MAX_FRAMES - 1

\* C3: 0 <= frame_count <= capacity in every reachable state.
C3_FrameCountInRange ==
  0 <= animation_frame_count /\ animation_frame_count <= MAX_FRAMES

C3_Witness ==
  last.op = "load_reject" /\ animation_frame_count = MAX_FRAMES

\* C4 as stated: running == true implies current_index < frame_count.
C4_RunningIndexBelowCount ==
  animation_running => animation_current_frame < animation_frame_count

\* C4 amended: running == true and frame_count > 0 imply
\* current_index < frame_count; running with frame_count == 0 implies
\* current_index == 0.
C4_RunningIndexBelowCountIfLoaded ==
  animation_running =>
    IF animation_frame_count = 0
      THEN animation_current_frame = 0
      ELSE animation_current_frame < animation_frame_count

C4_Witness ==
  /\ animation_running
  /\ last.op = "tick_render"
  /\ animation_current_frame = MAX_FRAMES - 1
  /\ animation_frame_count = MAX_FRAMES

\* C5 as stated: once play_animation was called with zero frames loaded, no
\* later tick renders a frame, whatever happens in between.
C5_EmptyPlayTickNeverRenders ==
  ~(playedEmpty /\ last.op = "tick_render")

\* C5 amended: once play_animation was called with zero frames loaded, every
\* tick invoked while frame_count is still 0 is a no-op: it renders nothing,
\* reads no slot and changes neither Frame Store nor Playback State.
C5_EmptyPlayTickNoOpWhileEmpty ==
  [][(playedEmpty /\ animation_frame_count = 0 /\ last'.op \in TickOps)
       => /\ last'.op = "tick_skip"
          /\ last'.slot = -1
          /\ UNCHANGED << prog, matrix, rendered >>]_vars

C5_Witness ==
  /\ playedEmpty
  /\ animation_running
  /\ animation_frame_count = 0
  /\ last.op = "tick_skip"

\* C6: no load_frame writes outside slots 0..capacity-1, and a frame offered
\* while frame_count == capacity is in no slot and is never rendered.
C6_OverflowNeverStoredNorRendered ==
  /\ last.op = "load_accept" => last.slot \in Slots
  /\ last.op = "load_reject" => last.slot = -1
  /\ \A i \in Slots : buf_id[i] \notin rejected
  /\ \A k \in 1 .. Len(rendered) : rendered[k].id \notin rejected

C6_Witness ==
  /\ rejected # {}
  /\ last.op = "tick_render"
  /\ Len(rendered) = MAX_FRAMES

\* C7: a load_frame call made when frame_count >= capacity stores nothing
\* and leaves frame_count, every stored frame and the Playback State as
\* they were.
C7_RejectedLoadChangesNothing ==
  [][(animation_frame_count >= MAX_FRAMES /\ seq' # seq)
       => /\ last'.op = "load_reject"
          /\ UNCHANGED << prog, buf_id, matrix >>]_vars

C7_Witness ==
  /\ last.op = "load_reject"
  /\ animation_running
  /\ animation_current_frame > 0

\* C8: after a load_frame was refused at capacity, once frame_count is below
\* capacity again the next load_frame is stored at index frame_count.
C8_IntakeResumesAfterOverflow ==
  [][(rejected # {} /\ animation_frame_count < MAX_FRAMES /\ seq' # seq)
       => /\ last'.op = "load_accept"
          /\ last'.slot = animation_frame_count
          /\ animation_buf'[animation_frame_count] = last'.arg
          /\ animation_frame_count' = animation_frame_count + 1
          /\ rejected' = rejected]_vars

C8_Witness ==
  /\ rejected # {}
  /\ last.op = "load_accept"
  /\ last.slot = 0

\* Time at which frame k is due when play_animation was called at t = 0:
\* the sum of max(duration_j, 1) over j < k.
RECURSIVE DueTime(_)
DueTime(k) ==
  IF k = 0 THEN 0
  ELSE DueTime(k - 1) + Max(animation_buf[k - 1][5], 1)

LoadedDurations == [j \in 1 .. scen.n |-> animation_buf[j - 1][5]]
RenderTimes == [k \in 1 .. Len(rendered) |-> rendered[k].t]

\* C9: with the tick polled at every millisecond after play_animation at
\* t = 0, frame k is rendered exactly at the sum of max(duration_j, 1) over
\* j < k; durations [100, 200, 300] render at 0, 100 and 300 and at t = 600
\* the engine is Idle with frame_count == 0.
C9_PolledRenderTimes ==
  scen.phase = "playing" =>
    /\ \A k \in 1 .. Len(rendered) :
          rendered[k].idx = k - 1 /\ rendered[k].t = DueTime(k - 1)
    /\ \A k \in 0 .. scen.n - 1 :
          (now > DueTime(k) \/ (now = DueTime(k) /\ last.op \in TickOps))
            => Len(rendered) >= k + 1
    /\ LoadedDurations = <<100, 200, 300>> =>
          /\ \A k \in 1 .. Len(rendered) : RenderTimes[k] = <<0, 100, 300>>[k]
          /\ now = 600 => /\ ~animation_running
                          /\ animation_frame_count = 0
                          /\ RenderTimes = <<0, 100, 300>>

C9_Witness ==
  /\ scen.phase = "playing"
  /\ LoadedDurations = <<100, 200, 300>>
  /\ now = 600
  /\ RenderTimes = <<0, 100, 300>>
  /\ ~animation_running

\* C10: a stored frame of duration 0 is rendered when its turn comes, the
\* deadline set by that tick is now + 1, and the next frame is rendered by
\* the first tick at least 1 ms later (the engine is Idle at once when the
\* frame was the last one).
C10_ZeroDurationFrameAdvances ==
  [][/\ ( /\ animation_running /\ animation_frame_count > 0
          /\ now >= animation_next_time
          /\ animation_current_frame \in Slots
          /\ animation_buf[animation_current_frame][5] = 0
          /\ last'.op \in TickOps )
        => /\ last'.op = "tick_render"
           /\ last'.slot = animation_current_frame
           /\ matrix' = [src |-> "frame",
                         data |-> FormattedFrame(animation_current_frame)]
           /\ animation_next_time' = now + 1
           /\ IF animation_current_frame + 1 < animation_frame_count
                THEN /\ animation_running'
                     /\ animation_current_frame' = animation_current_frame + 1
                ELSE ~animation_running' /\ animation_frame_count' = 0
     /\ ( /\ animation_running
          /\ Len(rendered) > 0
          /\ rendered[Len(rendered)].dur = 0
          /\ animation_current_frame = rendered[Len(rendered)].idx + 1
          /\ now >= rendered[Len(rendered)].t + 1
          /\ last'.op \in TickOps )
        => /\ last'.op = "tick_render"
           /\ last'.slot = rendered[Len(rendered)].idx + 1
    ]_vars

C10_Witness ==
  /\ last.op = "tick_render"
  /\ Len(rendered) >= 2
  /\ rendered[Len(rendered) - 1].dur = 0
  /\ rendered[Len(rendered)].t = rendered[Len(rendered) - 1].t + 1
  /\ rendered[Len(rendered)].idx = rendered[Len(rendered) - 1].idx + 1

\* C11: from any Playing state with frame_count >= 1, when the clock keeps
\* advancing, ticks keep being invoked and no further load_frame or
\* play_animation arrives, the engine eventually is Idle with
\* frame_count == 0, whatever the durations (0 included).
C11_PlayingEventuallyIdle ==
  (animation_running /\ animation_frame_count >= 1)
    ~> (~animation_running /\ animation_frame_count = 0)

C11_Witness ==
  /\ ~animation_running
  /\ animation_frame_count = 0
  /\ last.op = "tick_render"
  /\ Len(rendered) = MAX_FRAMES
  /\ rendered[1].dur = 0
  /\ rendered[MAX_FRAMES - 1].dur = 2
  /\ now = LiveHorizon

\* C12: the tick that renders the last stored frame leaves the engine Idle
\* with frame_count == 0 and current_index == 0; the store stays empty until
\* a load_frame is accepted, and while it is empty no tick renders, so a
\* play_animation without a new load_frame renders nothing.
C12_LastFrameConsumesBuffer ==
  [][/\ ( /\ last'.op = "tick_render"
          /\ animation_current_frame + 1 >= animation_frame_count )
        => /\ ~animation_running'
           /\ animation_frame_count' = 0
           /\ animation_current_frame' = 0
     /\ ( animation_frame_count = 0 /\ last'.op \in TickOps )
        => /\ last'.op = "tick_skip"
           /\ rendered' = rendered
           /\ matrix' = matrix
     /\ ( animation_frame_count = 0 /\ animation_frame_count' # 0 )
        => last'.op = "load_accept"
    ]_vars

\* a tick after a play_animation that followed a natural completion with no
\* load_frame in between
C12_Witness ==
  /\ last.op = "tick_skip"
  /\ animation_running
  /\ animation_frame_count = 0
  /\ rendered = <<>>
  /\ sinceStop = "none"
  /\ buf_id[MAX_FRAMES - 1] # 0

\* C13: stop_animation invoked while running leaves running == false and
\* frame_count == 0, and no tick renders a frame afterwards until load_frame
\* and play_animation have both been called again.
C13_StopHaltsUntilReloadAndPlay ==
  [][/\ ( animation_running /\ last'.op \in {"stop", "stop_idle"} )
        => /\ last'.op = "stop"
           /\ ~animation_running'
           /\ animation_frame_count' = 0
     /\ sinceStop' # "none" => last'.op # "tick_render"
    ]_vars

C13_Witness ==
  /\ sinceStop = "played"
  /\ last.op = "tick_skip"
  /\ animation_running
  /\ buf_id[0] # 0

\* C14: stop_animation invoked while Idle changes nothing, also when frames
\* are loaded but not yet played.
C14_StopWhileIdleChangesNothing ==
  [][( ~animation_running /\ last'.op \in {"stop", "stop_idle"} )
        => /\ last'.op = "stop_idle"
           /\ UNCHANGED << prog, matrix, buf_id, rendered >>
    ]_vars

C14_Witness ==
  /\ last.op = "stop_idle"
  /\ animation_frame_count = MAX_FRAMES - 1

\* C15 as stated: between two resets of the Frame Store the rendered indices
\* are 0,1,2,...: every render is of the index after the one rendered before.
C15_RenderOrderBetweenResets ==
  [][last'.op = "tick_render" => last'.slot = lastIdx + 1]_vars

\* C15 amended: within one playback (since the last play_animation) the
\* rendered indices are 0,1,2,... with none skipped or repeated, and the
\* frames come in ingestion order.
C15_RenderOrderWithinPlayback ==
  /\ \A k \in 1 .. Len(rendered) : rendered[k].idx = k - 1
  /\ \A k \in 1 .. Len(rendered) - 1 : rendered[k].id < rendered[k + 1].id
  /\ \A k \in 1 .. Len(rendered) : rendered[k].id # 0

C15_Witness ==
  /\ Len(rendered) = MAX_FRAMES
  /\ playedEmpty
  /\ sinceStop = "none"
  /\ rendered[1].id > 1

\* C16: play_animation sets running, current_index = 0 and next_deadline =
\* now and leaves frame_count and the stored frames alone; with at least one
\* frame stored the first tick after it renders frame 0.
C16_PlayStartsAtFrameZero ==
  [][/\ last'.op = "play"
        => /\ animation_running'
           /\ animation_current_frame' = 0
           /\ animation_next_time' = now
           /\ UNCHANGED << animation_buf, animation_frame_count, buf_id >>
     /\ ( /\ animation_running /\ rendered = <<>>
          /\ animation_frame_count >= 1
          /\ last'.op \in TickOps )
        => /\ last'.op = "tick_render"
           /\ last'.slot = 0
           /\ matrix' = [src |-> "frame", data |-> FormattedFrame(0)]
    ]_vars

C16_Witness ==
  /\ last.op = "tick_render"
  /\ last.slot = 0
  /\ Len(rendered) = 1
  /\ animation_running
  /\ animation_current_frame = 1

\* C17: a tick invoked while running == false or frame_count == 0 renders
\* nothing and leaves Frame Store, Playback State and Display Sink alone.
C17_IdleTickChangesNothing ==
  [][( (~animation_running \/ animation_frame_count = 0)
       /\ last'.op \in TickOps )
        => /\ last'.op = "tick_skip"
           /\ last'.slot = -1
           /\ UNCHANGED << prog, matrix, buf_id, rendered >>
    ]_vars

C17_Witness ==
  /\ last.op = "tick_skip"
  /\ ~animation_running
  /\ animation_frame_count > 0
  /\ matrix.src = "draw"

\* C18: a tick invoked while Playing with now < next_deadline renders
\* nothing and leaves Frame Store and Playback State unchanged.
C18_EarlyTickChangesNothing ==
  [][( /\ animation_running
       /\ now < animation_next_time
       /\ last'.op \in TickOps )
        => /\ last'.op \in {"tick_wait", "tick_skip"}
           /\ animation_frame_count > 0 => last'.op = "tick_wait"
           /\ last'.slot = -1
           /\ UNCHANGED << prog, matrix, buf_id, rendered >>
    ]_vars

C18_Witness ==
  /\ last.op = "tick_wait"
  /\ animation_running
  /\ now + 1 = animation_next_time

\* C19: a tick that renders Frame[i] at time now sets next_deadline to
\* now + max(duration_i, 1), counted from the tick time, and advances
\* current_index by exactly 1 before the end-of-buffer test.
C19_RenderSchedulesFromNow ==
  [][( last'.op = "tick_render" /\ animation_current_frame \in Slots )
        => /\ last'.slot = animation_current_frame
           /\ animation_next_time' =
                now + Max(animation_buf[animation_current_frame][5], 1)
           /\ IF animation_current_frame + 1 >= animation_frame_count
                THEN animation_current_frame' = 0 /\ ~animation_running'
                ELSE /\ animation_current_frame' = animation_current_frame + 1
                     /\ animation_running'
    ]_vars

\* a render later than the previous deadline: the new deadline counts from
\* the tick time
C19_Witness ==
  /\ last.op = "tick_render"
  /\ Len(rendered) >= 2
  /\ rendered[Len(rendered)].t >
       rendered[Len(rendered) - 1].t + Max(rendered[Len(rendered) - 1].dur, 1)
  /\ animation_next_time =
       rendered[Len(rendered)].t + Max(rendered[Len(rendered)].dur, 1)

\* C20: one tick renders at most one frame and does not wait: the index
\* moves by at most one, the clock does not move, and after a render the
\* new deadline is in the future, however late the tick is.
C20_TickRendersAtMostOne ==
  [][last'.op \in TickOps
        => /\ Len(rendered') <= Len(rendered) + 1
           /\ now' = now
           /\ animation_current_frame' <= animation_current_frame + 1
           /\ last'.op = "tick_render" =>
                /\ Len(rendered') = Len(rendered) + 1
                /\ animation_next_time' > now
    ]_vars

\* a late tick: by the durations the frame after the rendered one was due
\* as well, and it is still to be rendered
C20_Witness ==
  /\ last.op = "tick_render"
  /\ animation_running
  /\ Len(rendered) >= 2
  /\ now >= rendered[Len(rendered) - 1].t
              + Max(rendered[Len(rendered) - 1].dur, 1)
              + Max(rendered[Len(rendered)].dur, 1)
  /\ animation_current_frame = rendered[Len(rendered)].idx + 1

PlaybackState == << animation_running, animation_current_frame,
                    animation_next_time >>

\* C21: animation_frame_count is 0 at boot and a step changes it in one of
\* two ways only: +1 by an accepted load_frame, or back to 0 by the render
\* of the last frame or by stop_animation while running.
C21_FrameCountChangesOnlyByLoadOrReset ==
  /\ animation_frame_count = 0
  /\ [][ /\ animation_frame_count' # animation_frame_count
              => \/ /\ last'.op = "load_accept"
                    /\ animation_frame_count' = animation_frame_count + 1
                 \/ /\ last'.op = "tick_render"
                    /\ animation_current_frame + 1 >= animation_frame_count
                    /\ animation_frame_count' = 0
                 \/ /\ last'.op = "stop"
                    /\ animation_running
                    /\ animation_frame_count' = 0
         /\ last'.op = "load_accept"
              => animation_frame_count' = animation_frame_count + 1
         /\ last'.op \in {"load_reject", "stop_idle", "play", "draw",
                          "draw_empty", "tick_skip", "tick_wait", "advance"}
              => animation_frame_count' = animation_frame_count
     ]_vars

\* a full store refused one more frame and was then reset by stop_animation
C21_Witness ==
  /\ last.op = "stop"
  /\ last.cnt = MAX_FRAMES
  /\ rejected # {}
  /\ animation_frame_count = 0

\* C22: an accepted load_frame writes its five words into slot
\* animation_frame_count only and then increments the count; no step
\* changes a stored frame at an index below animation_frame_count.
C22_AppendOnlyStore ==
  [][ /\ \A i \in Slots :
           i < animation_frame_count => animation_buf'[i] = animation_buf[i]
      /\ last'.op = "load_accept"
           => /\ animation_frame_count \in Slots
              /\ animation_buf' =
                   [animation_buf EXCEPT ![animation_frame_count] = last'.arg]
              /\ animation_frame_count' = animation_frame_count + 1
    ]_vars

\* a frame appended during playback behind a stored frame that differs
\* from it
C22_Witness ==
  /\ last.op = "load_accept"
  /\ last.slot >= 1
  /\ animation_running
  /\ animation_current_frame >= 1
  /\ animation_buf[last.slot] = last.arg
  /\ animation_buf[0] # last.arg

\* C23: running, current frame and next deadline are changed by
\* play_animation, stop_animation and the tick only; load_frame (accepted or
\* refused) and draw leave all three as they are.
C23_PlaybackStateOwners ==
  [][ /\ last'.op \in {"load_accept", "load_reject", "draw", "draw_empty"}
           => PlaybackState' = PlaybackState
      /\ PlaybackState' # PlaybackState
           => last'.op \in {"play", "stop", "tick_render"}
    ]_vars

\* a frame refused in the middle of a playback
C23_Witness ==
  /\ last.op = "load_reject"
  /\ animation_running
  /\ animation_current_frame >= 1
  /\ animation_next_time > now

\* C24: draw with an empty buffer hands nothing to the Display Sink and
\* changes neither the frame store nor the playback state.
C24_EmptyDrawChangesNothing ==
  [][ ( last'.op \in {"draw", "draw_empty"} /\ last'.arg = <<>> )
        => /\ last'.op = "draw_empty"
           /\ matrix' = matrix
           /\ UNCHANGED << prog, now >>
    ]_vars

\* an empty draw during a playback: the sink keeps the frame it shows
C24_Witness ==
  /\ last.op = "draw_empty"
  /\ animation_running
  /\ matrix.src = "frame"
  /\ animation_frame_count >= 1

\* C25: a non-empty draw is handed to the Display Sink in any state of the
\* engine; the sink holds the most recent write of draw or of a rendering
\* tick; a draw leaves the frame store and the playback state alone.
C25_DrawForwardedLastWriteWins ==
  [][ /\ ( last'.op \in {"draw", "draw_empty"} /\ last'.arg # <<>> )
           => /\ last'.op = "draw"
              /\ matrix' = [src |-> "draw", data |-> last'.arg]
              /\ UNCHANGED << prog, now >>
      /\ last'.op = "tick_render"
           => matrix' = [src |-> "frame",
                         data |-> FormattedFrame(animation_current_frame)]
      /\ last'.op \notin {"draw", "tick_render"} => matrix' = matrix
    ]_vars

\* a draw in the middle of a playback, over a rendered frame
C25_Witness ==
  /\ last.op = "draw"
  /\ animation_running
  /\ animation_current_frame >= 1
  /\ animation_frame_count > animation_current_frame
  /\ matrix = [src |-> "draw", data |-> last.arg]

\* C26: every buffer draw hands to the Display Sink has one byte per cell
\* of the panel.
C26_ForwardedDrawHasPanelLength ==
  matrix.src = "draw" => Len(matrix.data) = PanelCells

\* C27: the Bit Formatter is its own inverse: the words of any stored frame,
\* formatted by the rendering tick and formatted once more, are the stored
\* words again (every pair of word values of the bounded width).
C27_FormatterIsInvolution ==
  last.op = "format_again"
    => /\ last.slot \in Slots
       /\ last.arg = SubSeq(animation_buf[last.slot], 1, 4)

\* a word that the formatter changes went through it twice
C27_Witness ==
  /\ last.op = "format_again"
  /\ matrix.src = "frame"
  /\ matrix.data[1] # last.arg[1]
  /\ matrix.data[2] # last.arg[2]

Bit(w, j) == (w \div (2 ^ j)) % 2

\* C28: a rendering tick hands the Display Sink exactly four words; word k
\* is stored word k of the current frame with bit j moved to bit
\* WordBits-1-j; the words keep their order and the duration is not sent.
C28_RenderSendsFourReversedWords ==
  [][ ( last'.op = "tick_render" /\ animation_current_frame \in Slots )
        => /\ matrix'.src = "frame"
           /\ Len(matrix'.data) = 4
           /\ \A k \in 1 .. 4 :
                /\ matrix'.data[k] \in 0 .. (WordMod - 1)
                /\ \A j \in 0 .. (WordBits - 1) :
                     Bit(matrix'.data[k], WordBits - 1 - j) =
                       Bit(animation_buf[animation_current_frame][k], j)
    ]_vars

\* a rendered frame whose four words and duration all differ and whose
\* first word is changed by the formatter
C28_Witness ==
  /\ last.op = "tick_render"
  /\ matrix.src = "frame"
  /\ Cardinality({ last.arg[k] : k \in 1 .. 5 }) = 5
  /\ matrix.data[1] # last.arg[1]

\* C29: no state refuses an operation: draw, load_frame, play_animation,
\* stop_animation and the tick can each be taken in every reachable state.
C29_EveryOperationAlwaysReturns ==
  /\ \A frame \in DrawInputs : ENABLED draw(frame)
  /\ seq < MaxLoads
       => \A animation_bytes \in FrameInputs : ENABLED load_frame(animation_bytes)
  /\ ENABLED play_animation
  /\ ENABLED stop_animation
  /\ ENABLED animation_tick

\* a zero-duration frame is rendered after a load was refused and
\* play_animation was called on an empty store
C29_Witness ==
  /\ last.op = "tick_render"
  /\ last.arg[5] = 0
  /\ rejected # {}
  /\ playedEmpty

\* C30: play_animation during a playback restarts it: the index returns to
\* 0 and the deadline to now, the stored frames and their count are kept,
\* and the next render is that of frame 0 again.
C30_PlayWhilePlayingRestarts ==
  [][ /\ ( animation_running /\ last'.op = "play" )
           => /\ animation_running'
              /\ animation_current_frame' = 0
              /\ animation_next_time' = now
              /\ UNCHANGED << animation_buf, animation_frame_count >>
      /\ ( lastIdx >= 0 /\ rendered = <<>> /\ last'.op = "tick_render" )
           => /\ last'.slot = 0
              /\ last'.arg = animation_buf[0]
    ]_vars

\* play_animation after the second frame or a later one was rendered
C30_Witness ==
  /\ last.op = "play"
  /\ lastIdx >= 1
  /\ animation_running
  /\ animation_current_frame = 0
  /\ animation_frame_count >= 2
  /\ animation_next_time = now

\* C31: a frame accepted into slot s during a playback is rendered in that
\* playback, after the frames of slots 0 .. s-1, unless stop_animation or a
\* new play_animation comes first.
C31_LoadWhilePlayingExtendsPlayback ==
  \A s \in Slots :
    ( /\ last.op = "load_accept"
      /\ last.slot = s
      /\ last.cnt >= 1
      /\ animation_running )
    ~> ( \/ /\ Len(rendered) > s
            /\ rendered[s + 1].idx = s
            /\ \A k \in 1 .. s : rendered[k].idx = k - 1
         \/ last.op \in {"play", "stop"} )

\* a frame accepted in the middle of a playback, after its first render
\* and behind the frame that is rendered next
C31_Witness ==
  /\ last.op = "load_accept"
  /\ animation_running
  /\ Len(rendered) >= 1
  /\ animation_current_frame = Len(rendered)
  /\ last.slot > animation_current_frame
  /\ animation_frame_count = last.slot + 1

\* C32: the tick that renders the last frame leaves the engine Idle with an
\* empty store in that same step, before the frame's duration has elapsed:
\* the clock has not moved and the deadline just set lies ahead.
C32_IdleInTheTickOfTheLastRender ==
  [][ ( /\ last'.op = "tick_render"
        /\ animation_current_frame \in Slots
        /\ animation_current_frame + 1 >= animation_frame_count )
        => /\ ~animation_running'
           /\ animation_frame_count' = 0
           /\ now' = now
           /\ animation_next_time' =
                now + Max(animation_buf[animation_current_frame][5], 1)
           /\ animation_next_time' > now'
    ]_vars

\* Idle right after the render of a last frame that lasts 2 ms
C32_Witness ==
  /\ last.op = "tick_render"
  /\ last.arg[5] = 2
  /\ ~animation_running
  /\ animation_frame_count = 0
  /\ rendered[Len(rendered)].t = now
  /\ animation_next_time = now + 2

\* C33: with the clock and the deadline wrapping at MillisMod, within one
\* playback frame i+1 is rendered no earlier than max(duration_i, 1) ms
\* after frame i.
C33_NoEarlyRenderAcrossWrap ==
  \A k \in 1 .. (Len(rendered) - 1) :
    (rendered[k + 1].t - rendered[k].t + MillisMod) % MillisMod
      >= Max(rendered[k].dur, 1)

\* C34: once the stop button was clicked, the simulated playback displays
\* no further frame until the play button is clicked again.
C34_NoFrameDisplayedAfterStop ==
  [][ stopClicked => last'.op # "displayFrame" ]_vars

\* C35: after any sequence of pushes, undo and redo clicks and history
\* resets, -1 <= historyIndex <= history.length - 1, and historyIndex is -1
\* only while the history is empty; the entry undo and redo read exists.
C35_HistoryIndexInRange ==
  /\ historyIndex >= -1
  /\ historyIndex <= Len(history) - 1
  /\ historyIndex = -1 => history = <<>>
  /\ last.op \in {"undo", "redo"} => grid = history[historyIndex + 1]

\* undo was clicked at the oldest entry of a full history
C35_Witness ==
  /\ last.op = "undo_none"
  /\ historyIndex = 0
  /\ Len(history) = MaxHistory

\* C36: a push after undos discards every entry after historyIndex and
\* leaves historyIndex at the last entry; a state equal to the last
\* remaining entry is not appended, so no two consecutive entries are
\* equal.
C36_PushTruncatesAndSkipsDuplicates ==
  [][ last'.op \in {"editGrid", "initEditor"}
        => /\ historyIndex' = Len(history') - 1
           /\ history'[Len(history')] = last'.arg[1]
           /\ \A k \in 1 .. (Len(history') - 1) : history'[k] # history'[k + 1]
           /\ last'.op = "editGrid"
                => /\ Len(history') <= historyIndex + 2
                   /\ SubSeq(history', 1, historyIndex + 1) =
                        SubSeq(history, 1, historyIndex + 1)
    ]_vars

\* a push after two undos on a full history: two entries were discarded
C36_Witness ==
  /\ last.op = "editGrid"
  /\ last.cnt = MaxHistory
  /\ last.slot = MaxHistory - 3
  /\ Len(history) = last.slot + 2
  /\ historyIndex = last.slot + 1

\* C37: at most one persist timer is armed at any time, and a burst of
\* schedulePersist calls, each less than AUTO_PERSIST_DELAY_MS after the
\* one before, causes exactly one persistFrame call, AUTO_PERSIST_DELAY_MS
\* after the last call of the burst.
C37_DebouncedPersist ==
  /\ Len(timers) <= 1
  /\ burstFires <= 1
  /\ lastCallAt >= 0 =>
       IF burstFires = 0
         THEN /\ timers = << lastCallAt + AUTO_PERSIST_DELAY_MS >>
              /\ persistTimeout = lastCallAt + AUTO_PERSIST_DELAY_MS
              /\ uiNow <= lastCallAt + AUTO_PERSIST_DELAY_MS
         ELSE /\ timers = <<>>
              /\ persistTimeout = 0
              /\ firedAt = lastCallAt + AUTO_PERSIST_DELAY_MS

\* one persistFrame after a burst of four calls (two edits, two undos)
\* that ended 2 * PersistStep after it began
C37_Witness ==
  /\ last.op = "persistFrame"
  /\ burstFires = 1
  /\ lastCallAt = 2 * PersistStep
  /\ firedAt = lastCallAt + AUTO_PERSIST_DELAY_MS
  /\ Len(history) = MaxHistory
  /\ historyIndex = MaxHistory - 3

NoColor == [r |-> 0, g |-> 0, b |-> 0]

\* C38: while an LED's switch is off every set_color message for it
\* carries {r:0, g:0, b:0} and palette, picker and hex input leave its
\* remembered colour alone; switching it on again emits the colour that
\* was selected before it was switched off.
C38_OffLedKeepsColourAndSendsBlack ==
  [][ \A l \in Leds :
        last'.slot = l =>
          /\ \A k \in 1 .. Len(sent') : sent'[k].led = l
          /\ ~ledState'[l].isOn
               => \A k \in 1 .. Len(sent') : sent'[k].color = NoColor
          /\ ( ~ledState[l].isOn /\ last'.op \in {"palette", "picker", "hex"} )
               => /\ ledState'[l].color = ledState[l].color
                  /\ ~ledState'[l].isOn
                  /\ sent' = <<>>
          /\ ( ~ledState[l].isOn /\ last'.op \in {"switch_on", "switch_off"} )
               => /\ ledState'[l].color = ledState[l].color
                  /\ ledState'[l].isOn
                       => sent' = << SetColor(l, hexToRgb(ledState[l].color)) >>
    ]_vars

\* LED 3, switched off while red, is switched on again and red is sent
C38_Witness ==
  /\ last.op = "switch_on"
  /\ last.slot = 3
  /\ last.cnt = 0
  /\ ledState[3].color = Red
  /\ ledState[3].isOn
  /\ sent = << SetColor(3, [r |-> 255, g |-> 0, b |-> 0]) >>

====
